---- MODULE Spec2Model ----
(***************************************************************************)
(* Switch Manager (custom_components/switch_manager/__init__.py): the      *)
(* startup sequence (store load, blueprint migration, registry build) and  *)
(* the websocket commands over the managed-switch registry and the store.  *)
(*                                                                         *)
(* store.py, helpers.py and models.py are not part of the sources at hand; *)
(* SwitchManagerStore, deploy_blueprints, check_blueprints_folder_exists,  *)
(* load_blueprints and ManagedSwitchConfig are modelled from their         *)
(* documented contracts.                                                   *)
(***************************************************************************)
EXTENDS Integers, Sequences, FiniteSets, Bags, TLC

(* ------------------------------ bounds -------------------------------- *)

\* ids the store can hand out before creates are refused by the model
MaxIds == 2

(* ----------------------------- value sets ----------------------------- *)

\* a request without id: None, 0 and "" are all falsy at line 197
NoId == 0
Ids == 1..MaxIds

Versions == {"1", "2"}
NoVersion == "none"

BlueprintIds == {"basic", "custom"}
\* blueprints shipped with the component, copied by deploy_blueprints
Bundled == {"basic"}
FileStates == {"absent", "valid", "invalid"}

NoListener == "none"

\* the two concurrent units of work the connection can have in flight
Slots == {"t1", "t2"}

\* validated save-config payloads (SWITCH_MANAGER_CONFIG_SCHEMA, without id)
Payloads ==
    { [name |-> "Kitchen", enabled |-> TRUE,  blueprint |-> "basic",
       identifier |-> "sw1", buttons |-> <<"single">>],
      [name |-> "Kitchen", enabled |-> TRUE,  blueprint |-> "basic",
       identifier |-> "sw2", buttons |-> <<"single">>],
      [name |-> "Hall",    enabled |-> FALSE, blueprint |-> "custom",
       identifier |-> "sw1", buttons |-> <<>>] }

(* ------------------------------- state -------------------------------- *)

VARIABLES
    manifest,     \* version in the bundled manifest
    version,      \* store: the stored version marker
    store,        \* store: id -> serialized ManagedSwitchConfig
    nextId,       \* store: the id counter behind get_available_id
    dir,          \* writable blueprint directory: blueprint id -> file state
    phase,        \* where async_setup stands, or "running" / "down"
    blueprints,   \* hass.data[DOMAIN][CONF_BLUEPRINTS]
    switches,     \* hass.data[DOMAIN][CONF_MANAGED_SWITCHES]
    detached,     \* objects removed from the registry that a task still holds
    bus,          \* event listeners registered on the platform bus (a bag)
    tasks,        \* per slot: the handler suspended at its store call
    resp,         \* the reply to the latest request, none while it is pending
    issued,       \* history: ids handed out by creates
    deleted,      \* history: ids whose delete-config returned its result
    migPre,       \* history: what async_migrate saw when it began
    migLog,       \* history: side effects of the current async_migrate run
    migRet        \* the value async_migrate returned

durable == <<manifest, version, store, nextId, dir>>
memory == <<blueprints, switches, detached, bus>>
migration == <<migPre, migLog, migRet>>
history == <<issued, deleted>>
vars == <<manifest, version, store, nextId, dir, phase, blueprints, switches,
          detached, bus, tasks, resp, issued, deleted, migPre, migLog, migRet>>

Idle == [pc |-> "idle", cmd |-> "none", id |-> NoId, arg |-> FALSE]
NoResp == [kind |-> "none", cmd |-> "none", id |-> NoId, body |-> <<>>]
EmptyMap == [i \in {} |-> 0]
NoMigPre == [verEq |-> FALSE, dirOk |-> FALSE, version |-> NoVersion]

Remove(f, k) == [i \in DOMAIN f \ {k} |-> f[i]]
Put(f, k, v) == (k :> v) @@ f

(* ------------- ManagedSwitchConfig (models.py, documented) ------------ *)

\* ManagedSwitchConfig(hass, blueprint, _id, config): a fresh, Unbound object.
\* blueprint is what _get_blueprint returned: a Blueprint or the raw id.
ManagedSwitchConfig(blueprint, id, config) ==
    [id |-> id, name |-> config.name, enabled |-> config.enabled,
     blueprint |-> blueprint, identifier |-> config.identifier,
     buttons |-> config.buttons, listener |-> NoListener]

\* stop(): tear down the event listener; a no-op on an unbound instance.
\* Operators on an object return the object and the bus after the call.
stop(c, b) ==
    IF c.listener = NoListener
    THEN [c |-> c, b |-> b]
    ELSE [c |-> [c EXCEPT !.listener = NoListener],
          b |-> b (-) SetToBag({<<c.id, c.listener>>})]

\* start(): tear down a prior binding, then bind iff enabled and the
\* blueprint is resolved; the listener is keyed by the current identifier.
\* (Documented both as "otherwise no-op (stays Unbound)" and as what unbinds a
\* switch disabled by setEnabled: the teardown therefore comes first, always.)
start(c, b) ==
    LET t == stop(c, b) IN
    IF t.c.enabled /\ t.c.blueprint.resolved
    THEN [c |-> [t.c EXCEPT !.listener = t.c.identifier],
          b |-> t.b (+) SetToBag({<<t.c.id, t.c.identifier>>})]
    ELSE t

\* setEnabled(bool): sets the flag only; the caller invokes start() next.
setEnabled(c, value) == [c EXCEPT !.enabled = value]

\* update(fields): merge the fields, re-resolve the blueprint if it changed,
\* then behave as stop(); start()
update(c, fields, bps, b) ==
    LET merged == [c EXCEPT !.name = fields.name,
                            !.enabled = fields.enabled,
                            !.identifier = fields.identifier,
                            !.buttons = fields.buttons,
                            !.blueprint =
                                IF fields.blueprint = c.blueprint.id
                                THEN c.blueprint
                                ELSE [id |-> fields.blueprint,
                                      resolved |-> fields.blueprint \in DOMAIN bps]]
        t == stop(merged, b)
    IN start(t.c, t.b)

\* the serialized form of a config: the blueprint is stored by id and the
\* runtime binding is not stored
Serialize(c) ==
    [name |-> c.name, enabled |-> c.enabled, blueprint |-> c.blueprint.id,
     identifier |-> c.identifier, buttons |-> c.buttons]

(* ------------------ SwitchManagerStore (store.py, documented) --------- *)

\* compare_version(v): true iff the stored marker equals v
compare_version(stored, v) == stored = v

\* update_version(v): the new stored marker
update_version(v) == v

\* get_available_id(): a monotonic counter, never an id issued before
get_available_id(counter) == counter

\* set_managed_switch(config): upsert of the serialized config
set_managed_switch(st, c) == Put(st, c.id, Serialize(c))

\* delete_managed_switch(id): remove; an unknown id is a no-op
delete_managed_switch(st, id) == Remove(st, id)

(* ------------------------ helpers.py (documented) --------------------- *)

\* deploy_blueprints(hass): every bundled blueprint file is written over
\* whatever the directory holds; other files are left alone
deploy_blueprints(d) ==
    [b \in BlueprintIds |-> IF b \in Bundled THEN "valid" ELSE d[b]]

\* check_blueprints_folder_exists(hass): the directory exists and is not empty
check_blueprints_folder_exists(d) == \E b \in BlueprintIds : d[b] # "absent"

\* the orders in which a directory listing can enumerate a set of names
Orders(S) ==
    { q \in [1..Cardinality(S) -> S] : \A b \in S : \E i \in DOMAIN q : q[i] = b }

\* load_blueprints(hass): one {id, data, has_image} entry per definition
\* file, in the order the directory listing gave
load_blueprints(d, order) ==
    [i \in DOMAIN order |->
        [id |-> order[i], data |-> d[order[i]], has_image |-> FALSE]]

(* ------------------------- __init__.py helpers ------------------------ *)

\* BLUEPRINT_SCHEMA(data) raises vol.Invalid
SchemaInvalid(data) == data # "valid"

Blueprint(id, data, has_image) ==
    [id |-> id, data |-> data, has_image |-> has_image]

RECURSIVE InitBlueprintsLoop(_, _)
InitBlueprintsLoop(configs, acc) ==
    IF configs = <<>> THEN acc
    ELSE LET config == Head(configs) IN
         IF SchemaInvalid(config.data)
         THEN InitBlueprintsLoop(Tail(configs), acc)
         ELSE InitBlueprintsLoop(Tail(configs),
                Put(acc, config.id,
                    Blueprint(config.id, config.data, config.has_image)))

\* a load whose try encloses the loop: it ends at the first invalid entry
Mut_init_blueprints(configs) ==
    LET bad == {i \in DOMAIN configs : SchemaInvalid(configs[i].data)}
        n == IF bad = {} THEN Len(configs)
             ELSE (CHOOSE i \in bad : \A j \in bad : i <= j) - 1
    IN InitBlueprintsLoop(SubSeq(configs, 1, n), EmptyMap)

\* _init_blueprints: start from an empty map, keep what validates
_init_blueprints(configs) == InitBlueprintsLoop(configs, EmptyMap)

\* _get_blueprint: the Blueprint when known, else the raw id
_get_blueprint(bps, id) == [id |-> id, resolved |-> id \in DOMAIN bps]

\* _set_switch_config: register under config.id, then config.start()
_set_switch_config(sw, b, config) ==
    LET t == start(config, b) IN [sw |-> Put(sw, config.id, t.c), b |-> t.b]

\* _get_switch_config: dict.get, None when absent (here: the empty set)
_get_switch_config(sw, id) ==
    IF id \in DOMAIN sw THEN {sw[id]} ELSE {}

\* a removal that forgets to stop() the entry
Mut_remove_switch_config(sw, b, id) == [sw |-> Remove(sw, id), b |-> b]

\* _remove_switch_config: stop() the entry, then del it (the id is present)
_remove_switch_config(sw, b, id) ==
    LET t == stop(sw[id], b) IN [sw |-> Remove(sw, id), b |-> t.b]

RECURSIVE InitSwitchConfigsLoop(_, _, _, _)
InitSwitchConfigsLoop(st, todo, bps, acc) ==
    IF todo = {} THEN acc
    ELSE LET id == CHOOSE i \in todo : TRUE
             switch == ManagedSwitchConfig(
                          _get_blueprint(bps, st[id].blueprint), id, st[id])
         IN InitSwitchConfigsLoop(st, todo \ {id}, bps,
                _set_switch_config(acc.sw, acc.b, switch))

\* a load that leaves out the switches whose blueprint is not registered
Mut_init_switch_configs(st, bps, b) ==
    InitSwitchConfigsLoop(st, {i \in DOMAIN st : st[i].blueprint \in DOMAIN bps},
                          bps, [sw |-> EmptyMap, b |-> b])

\* _init_switch_configs: one started ManagedSwitchConfig per stored switch
_init_switch_configs(st, bps, b) ==
    InitSwitchConfigsLoop(st, DOMAIN st, bps, [sw |-> EmptyMap, b |-> b])

(* ------------------------------- Init --------------------------------- *)

\* a fresh installation, before Home Assistant loads the component
Init ==
    /\ manifest \in Versions
    /\ version = NoVersion
    /\ store = EmptyMap
    /\ nextId = 1
    /\ dir = [b \in BlueprintIds |-> "absent"]
    /\ phase = "down"
    /\ blueprints = EmptyMap
    /\ switches = EmptyMap
    /\ detached = EmptyMap
    /\ bus = EmptyBag
    /\ tasks = [s \in Slots |-> Idle]
    /\ resp = NoResp
    /\ issued = {}
    /\ deleted = {}
    /\ migPre = NoMigPre
    /\ migLog = <<>>
    /\ migRet = FALSE

Quiescent == \A s \in Slots : tasks[s].pc = "idle"

\* async_migrate's return values: line 112, and line 116
RetMigrated == TRUE
RetUnchanged == FALSE

(* ---------------------------- environment ----------------------------- *)

\* the process goes away: everything in memory is lost, in-flight handlers
\* with it; the store, the directory and the manifest stay
Restart ==
    /\ phase # "down"
    /\ phase' = "down"
    /\ blueprints' = EmptyMap
    /\ switches' = EmptyMap
    /\ detached' = EmptyMap
    /\ bus' = EmptyBag
    /\ tasks' = [s \in Slots |-> Idle]
    /\ migPre' = NoMigPre
    /\ migLog' = <<>>
    /\ migRet' = FALSE
    /\ resp' = NoResp
    /\ UNCHANGED <<durable, issued, deleted>>

\* the process is stopped at any point, async_setup under way included; the
\* history keeps whether that was between the deploy of line 110 and the
\* version write of line 111
Interrupt ==
    /\ phase # "down"
    /\ phase' = "down"
    /\ blueprints' = EmptyMap
    /\ switches' = EmptyMap
    /\ detached' = EmptyMap
    /\ bus' = EmptyBag
    /\ tasks' = [s \in Slots |-> Idle]
    /\ resp' = NoResp
    /\ migPre' = NoMigPre
    /\ migLog' = IF phase = "version" THEN <<"interrupted">> ELSE <<>>
    /\ migRet' = FALSE
    /\ UNCHANGED <<durable, issued, deleted>>

\* the component is upgraded or downgraded while it is not running
Upgrade ==
    /\ phase = "down"
    /\ \E v \in Versions \ {manifest} : manifest' = v
    /\ UNCHANGED <<version, store, nextId, dir, phase, memory, tasks, resp,
                   history, migration>>

\* the user adds, edits or removes a blueprint file while it is not running
UserEditsDir ==
    /\ phase = "down"
    /\ \E b \in BlueprintIds : \E f \in FileStates \ {dir[b]} :
          dir' = [dir EXCEPT ![b] = f]
    /\ UNCHANGED <<manifest, version, store, nextId, phase, memory, tasks,
                   resp, history, migration>>

(* ------------------------------ startup ------------------------------- *)

\* async_setup, up to the call of async_migrate: fresh hass.data, store.load()
async_setup ==
    /\ phase = "down"
    /\ phase' = "migrate"
    /\ blueprints' = EmptyMap
    /\ switches' = EmptyMap
    /\ UNCHANGED <<durable, detached, bus, tasks, resp, history, migration>>

\* a migration that deploys and bumps without comparing versions
Mut_async_migrate ==
    /\ phase = "migrate"
    /\ migPre' = [verEq |-> compare_version(version, manifest),
                  dirOk |-> check_blueprints_folder_exists(dir),
                  version |-> version]
    /\ phase' = "deploy"
    /\ migRet' = migRet
    /\ UNCHANGED <<durable, memory, tasks, resp, history, migLog>>

\* async_migrate, the comparisons of lines 108 and 113
async_migrate ==
    /\ phase = "migrate"
    /\ migPre' = [verEq |-> compare_version(version, manifest),
                  dirOk |-> check_blueprints_folder_exists(dir),
                  version |-> version]
    /\ IF ~compare_version(version, manifest)
       THEN phase' = "deploy" /\ migRet' = migRet
       ELSE IF ~check_blueprints_folder_exists(dir)
       THEN phase' = "repair" /\ migRet' = migRet
       ELSE phase' = "init" /\ migRet' = RetUnchanged
    /\ UNCHANGED <<durable, memory, tasks, resp, history, migLog>>

\* a migration that writes the version where it should deploy first
Mut_async_migrate_deploy ==
    /\ phase = "deploy"
    /\ version' = update_version(manifest)
    /\ migLog' = Append(migLog, "version")
    /\ phase' = "version"
    /\ UNCHANGED <<manifest, store, nextId, dir, memory, tasks, resp,
                   history, migPre, migRet>>

\* line 110: await deploy_blueprints(hass)
async_migrate_deploy ==
    /\ phase = "deploy"
    /\ dir' = deploy_blueprints(dir)
    /\ migLog' = Append(migLog, "deploy")
    /\ phase' = "version"
    /\ UNCHANGED <<manifest, version, store, nextId, memory, tasks, resp,
                   history, migPre, migRet>>

\* a migration that returns True without writing the version
Mut_async_migrate_update_version ==
    /\ phase = "version"
    /\ migRet' = RetMigrated
    /\ phase' = "init"
    /\ UNCHANGED <<durable, memory, tasks, resp, history, migPre, migLog>>

\* lines 111-112: await store.update_version(...); return True
async_migrate_update_version ==
    /\ phase = "version"
    /\ version' = update_version(manifest)
    /\ migLog' = Append(migLog, "version")
    /\ migRet' = RetMigrated
    /\ phase' = "init"
    /\ UNCHANGED <<manifest, store, nextId, dir, memory, tasks, resp, history,
                   migPre>>

\* a repair branch that returns without deploying
Mut_async_migrate_repair ==
    /\ phase = "repair"
    /\ migRet' = RetUnchanged
    /\ phase' = "init"
    /\ UNCHANGED <<durable, memory, tasks, resp, history, migPre, migLog>>

\* lines 114-116: await deploy_blueprints(hass); return False
async_migrate_repair ==
    /\ phase = "repair"
    /\ dir' = deploy_blueprints(dir)
    /\ migLog' = Append(migLog, "deploy")
    /\ migRet' = RetUnchanged
    /\ phase' = "init"
    /\ UNCHANGED <<manifest, version, store, nextId, memory, tasks, resp,
                   history, migPre>>

\* lines 110 and 114: deploy_blueprints raises. Neither async_migrate nor
\* async_setup has a handler around the call, so the exception leaves
\* async_setup before line 86: the setup of the component has failed
async_migrate_deploy_raises ==
    /\ phase \in {"deploy", "repair"}
    /\ migLog' = Append(migLog, "deploy_failed")
    /\ phase' = "aborted"
    /\ UNCHANGED <<durable, memory, tasks, resp, history, migPre, migRet>>

\* async_setup, lines 86-91: _init_blueprints, then _init_switch_configs
async_setup_init ==
    /\ phase = "init"
    /\ \E order \in Orders({b \in BlueprintIds : dir[b] # "absent"}) :
          LET bps == _init_blueprints(load_blueprints(dir, order))
              r == _init_switch_configs(store, bps, bus)
          IN /\ blueprints' = bps
             /\ switches' = r.sw
             /\ bus' = r.b
    /\ phase' = "running"
    /\ migPre' = NoMigPre
    /\ migLog' = <<>>
    /\ migRet' = FALSE
    /\ UNCHANGED <<durable, detached, tasks, resp, issued, deleted>>

(* ------------------------------ commands ------------------------------ *)

\* connection.send_result(msg['id'], body)
Result(cmd, id, body) == [kind |-> "result", cmd |-> cmd, id |-> id, body |-> body]

\* an exception that leaves the handler: async_response reports it to the
\* caller as an error message carrying no more than the fault
Fault(cmd, id, exc) == [kind |-> "error", cmd |-> cmd, id |-> id, body |-> exc]

\* the object a suspended handler holds in its local variable config
Held(id) == IF id \in DOMAIN switches THEN switches[id] ELSE detached[id]

\* removed objects stay alive only while some other suspended handler holds them
StillHeld(s, det) ==
    [i \in {j \in DOMAIN det : \E o \in Slots \ {s} :
                tasks[o].pc # "idle" /\ tasks[o].id = j} |-> det[i]]

\* an update that registers a new object under the id and lets go of the old
\* one without stopping it
Mut_save_config_update_replace(s, id, config) ==
    LET found == _get_switch_config(switches, id) IN
    IF found = {}
    THEN /\ resp' = Fault("save", id, "AttributeError")
         /\ UNCHANGED <<switches, bus, tasks, nextId, issued>>
    ELSE LET c == ManagedSwitchConfig(
                     _get_blueprint(blueprints, config.blueprint), id, config)
             t == _set_switch_config(switches, bus, c)
         IN /\ switches' = t.sw
            /\ bus' = t.b
            /\ tasks' = [tasks EXCEPT ![s] =
                   [pc |-> "write", cmd |-> "update", id |-> id, arg |-> FALSE]]
            /\ resp' = NoResp
            /\ UNCHANGED <<nextId, issued>>

\* an update that creates the entry under the given id when it is missing
Mut_save_config_update_upsert(s, id, config) ==
    LET found == _get_switch_config(switches, id)
        c == ManagedSwitchConfig(
                _get_blueprint(blueprints, config.blueprint), id, config)
        t == IF found = {}
             THEN LET n == _set_switch_config(switches, bus, c)
                  IN [c |-> n.sw[id], b |-> n.b]
             ELSE update(switches[id], config, blueprints, bus)
    IN /\ switches' = Put(switches, id, t.c)
       /\ bus' = t.b
       /\ tasks' = [tasks EXCEPT ![s] =
              [pc |-> "write", cmd |-> "update", id |-> id, arg |-> FALSE]]
       /\ resp' = NoResp
       /\ UNCHANGED <<nextId, issued>>

\* lines 198-199: the update branch, config = _get_switch_config(...)
save_config_update(s, id, config) ==
    LET found == _get_switch_config(switches, id) IN
    IF found = {}
    THEN \* None.update(...): AttributeError
         /\ resp' = Fault("save", id, "AttributeError")
         /\ UNCHANGED <<switches, bus, tasks, nextId, issued>>
    ELSE LET t == update(switches[id], config, blueprints, bus) IN
         /\ switches' = Put(switches, id, t.c)
         /\ bus' = t.b
         /\ tasks' = [tasks EXCEPT ![s] =
                [pc |-> "write", cmd |-> "update", id |-> id, arg |-> FALSE]]
         /\ resp' = NoResp
         /\ UNCHANGED <<nextId, issued>>

\* a create that takes the size of the registry plus one as the new id
Mut_save_config_create(s, config) ==
    /\ nextId <= MaxIds
    /\ LET new == Cardinality(DOMAIN switches) + 1
           c == ManagedSwitchConfig(
                   _get_blueprint(blueprints, config.blueprint), new, config)
           t == _set_switch_config(switches, bus, c)
       IN /\ switches' = t.sw
          /\ bus' = t.b
          /\ tasks' = [tasks EXCEPT ![s] =
                 [pc |-> "write", cmd |-> "create", id |-> new, arg |-> FALSE]]
          /\ issued' = issued \cup {new}
    /\ nextId' = nextId + 1
    /\ resp' = NoResp

\* a create that takes its id from what the store holds: one past its size
Mut_save_config_create_from_store(s, config) ==
    /\ nextId <= MaxIds
    /\ LET new == Cardinality(DOMAIN store) + 1
           c == ManagedSwitchConfig(
                   _get_blueprint(blueprints, config.blueprint), new, config)
           t == _set_switch_config(switches, bus, c)
       IN /\ switches' = t.sw
          /\ bus' = t.b
          /\ tasks' = [tasks EXCEPT ![s] =
                 [pc |-> "write", cmd |-> "create", id |-> new, arg |-> FALSE]]
          /\ issued' = issued \cup {new}
    /\ nextId' = nextId + 1
    /\ resp' = NoResp

\* lines 201-207: the create branch, with an id from store.get_available_id()
save_config_create(s, config) ==
    /\ nextId <= MaxIds
    /\ LET new == get_available_id(nextId)
           c == ManagedSwitchConfig(
                   _get_blueprint(blueprints, config.blueprint), new, config)
           t == _set_switch_config(switches, bus, c)
       IN /\ switches' = t.sw
          /\ bus' = t.b
          /\ tasks' = [tasks EXCEPT ![s] =
                 [pc |-> "write", cmd |-> "create", id |-> new, arg |-> FALSE]]
          /\ issued' = issued \cup {new}
    /\ nextId' = nextId + 1
    /\ resp' = NoResp

\* websocket_save_config, lines 194-207: up to the await of line 209
websocket_save_config(s, id, config) ==
    /\ phase = "running"
    /\ tasks[s].pc = "idle"
    /\ IF id # NoId
       THEN save_config_update(s, id, config)
       ELSE save_config_create(s, config)
    /\ UNCHANGED <<manifest, version, store, dir, phase, blueprints, detached,
                   deleted, migration>>

\* a save that answers without having written the store
Mut_websocket_save_config_write(s) ==
    /\ tasks[s].pc = "write"
    /\ tasks[s].cmd \in {"create", "update"}
    /\ LET config == Held(tasks[s].id) IN
       /\ store' = store
       /\ resp' = Result("save", config.id, config)
    /\ tasks' = [tasks EXCEPT ![s] = Idle]
    /\ detached' = StillHeld(s, detached)
    /\ UNCHANGED <<manifest, version, nextId, dir, phase, blueprints, switches,
                   bus, history, migration>>

\* websocket_save_config, lines 209-214: the store write and the result
websocket_save_config_write(s) ==
    /\ tasks[s].pc = "write"
    /\ tasks[s].cmd \in {"create", "update"}
    /\ LET config == Held(tasks[s].id) IN
       /\ store' = set_managed_switch(store, config)
       /\ resp' = Result("save", config.id, config)
    /\ tasks' = [tasks EXCEPT ![s] = Idle]
    /\ detached' = StillHeld(s, detached)
    /\ UNCHANGED <<manifest, version, nextId, dir, phase, blueprints, switches,
                   bus, history, migration>>

\* a toggle that sets the flag and does not call start()
Mut_websocket_toggle_config_enabled(s, id, enabled) ==
    /\ phase = "running"
    /\ tasks[s].pc = "idle"
    /\ LET found == _get_switch_config(switches, id) IN
       IF found = {}
       THEN /\ resp' = Fault("toggle", id, "AttributeError")
            /\ UNCHANGED <<switches, bus, tasks>>
       ELSE /\ switches' = Put(switches, id, setEnabled(switches[id], enabled))
            /\ bus' = bus
            /\ tasks' = [tasks EXCEPT ![s] =
                   [pc |-> "write", cmd |-> "toggle", id |-> id,
                    arg |-> enabled]]
            /\ resp' = NoResp
    /\ UNCHANGED <<durable, phase, blueprints, detached, issued, deleted,
                   migration>>

\* a toggle that calls start() before it sets the flag
Mut_websocket_toggle_config_enabled_start_first(s, id, enabled) ==
    /\ phase = "running"
    /\ tasks[s].pc = "idle"
    /\ LET found == _get_switch_config(switches, id) IN
       IF found = {}
       THEN /\ resp' = Fault("toggle", id, "AttributeError")
            /\ UNCHANGED <<switches, bus, tasks>>
       ELSE LET t == start(switches[id], bus) IN
            /\ switches' = Put(switches, id, setEnabled(t.c, enabled))
            /\ bus' = t.b
            /\ tasks' = [tasks EXCEPT ![s] =
                   [pc |-> "write", cmd |-> "toggle", id |-> id,
                    arg |-> enabled]]
            /\ resp' = NoResp
    /\ UNCHANGED <<durable, phase, blueprints, detached, issued, deleted,
                   migration>>

\* websocket_toggle_config_enabled, lines 227-231
websocket_toggle_config_enabled(s, id, enabled) ==
    /\ phase = "running"
    /\ tasks[s].pc = "idle"
    /\ LET found == _get_switch_config(switches, id) IN
       IF found = {}
       THEN \* None.setEnabled(...): AttributeError
            /\ resp' = Fault("toggle", id, "AttributeError")
            /\ UNCHANGED <<switches, bus, tasks>>
       ELSE LET t == start(setEnabled(switches[id], enabled), bus) IN
            /\ switches' = Put(switches, id, t.c)
            /\ bus' = t.b
            /\ tasks' = [tasks EXCEPT ![s] =
                   [pc |-> "write", cmd |-> "toggle", id |-> id,
                    arg |-> enabled]]
            /\ resp' = NoResp
    /\ UNCHANGED <<durable, phase, blueprints, detached, issued, deleted,
                   migration>>

\* a toggle that answers without having written the store
Mut_websocket_toggle_config_enabled_write(s) ==
    /\ tasks[s].pc = "write"
    /\ tasks[s].cmd = "toggle"
    /\ resp' = Result("toggle", tasks[s].id, tasks[s].arg)
    /\ tasks' = [tasks EXCEPT ![s] = Idle]
    /\ detached' = StillHeld(s, detached)
    /\ UNCHANGED <<durable, phase, blueprints, switches, bus, history,
                   migration>>

\* websocket_toggle_config_enabled, lines 233-238
websocket_toggle_config_enabled_write(s) ==
    /\ tasks[s].pc = "write"
    /\ tasks[s].cmd = "toggle"
    /\ LET config == Held(tasks[s].id) IN
       /\ store' = set_managed_switch(store, config)
       /\ resp' = Result("toggle", config.id, tasks[s].arg)
    /\ tasks' = [tasks EXCEPT ![s] = Idle]
    /\ detached' = StillHeld(s, detached)
    /\ UNCHANGED <<manifest, version, nextId, dir, phase, blueprints, switches,
                   bus, history, migration>>

\* websocket_delete_config, lines 250-252; config_id is optional in its schema
websocket_delete_config(s, id) ==
    /\ phase = "running"
    /\ tasks[s].pc = "idle"
    /\ IF id = NoId \/ id \notin DOMAIN switches
       THEN \* msg['config_id'] or CONF_MANAGED_SWITCHES[_id]: KeyError
            /\ resp' = Fault("delete", id, "KeyError")
            /\ UNCHANGED <<switches, bus, tasks, detached>>
       ELSE LET t == _remove_switch_config(switches, bus, id) IN
            /\ switches' = t.sw
            /\ bus' = t.b
            /\ detached' =
                   IF \E o \in Slots \ {s} :
                          tasks[o].pc # "idle" /\ tasks[o].id = id
                   THEN Put(detached, id, stop(switches[id], bus).c)
                   ELSE detached
            /\ tasks' = [tasks EXCEPT ![s] =
                   [pc |-> "delete", cmd |-> "delete", id |-> id,
                    arg |-> FALSE]]
            /\ resp' = NoResp
    /\ UNCHANGED <<durable, phase, blueprints, issued, deleted, migration>>

\* websocket_delete_config, lines 253-257
websocket_delete_config_delete(s) ==
    /\ tasks[s].pc = "delete"
    /\ store' = delete_managed_switch(store, tasks[s].id)
    /\ resp' = Result("delete", tasks[s].id, tasks[s].id)
    /\ deleted' = deleted \cup {tasks[s].id}
    /\ tasks' = [tasks EXCEPT ![s] = Idle]
    /\ detached' = StillHeld(s, detached)
    /\ UNCHANGED <<manifest, version, nextId, dir, phase, blueprints, switches,
                   bus, issued, migration>>

\* websocket_configs: one config by id, or the whole registry
websocket_configs(id) ==
    /\ phase = "running"
    /\ resp' = Result("configs", id,
                  IF id # NoId THEN _get_switch_config(switches, id)
                  ELSE {switches[i] : i \in DOMAIN switches})
    /\ UNCHANGED <<durable, phase, memory, tasks, issued, deleted, migration>>

\* the store call a handler is suspended at raises: the exception leaves the
\* handler, nothing was written
StoreFault(s) ==
    /\ tasks[s].pc \in {"write", "delete"}
    /\ resp' = Fault(IF tasks[s].cmd \in {"create", "update"} THEN "save"
                      ELSE tasks[s].cmd,
                      tasks[s].id, "StoreError")
    /\ tasks' = [tasks EXCEPT ![s] = Idle]
    /\ detached' = StillHeld(s, detached)
    /\ UNCHANGED <<durable, phase, blueprints, switches, bus, history,
                   migration>>

(* --------------------------- specifications --------------------------- *)

Startup ==
    \/ async_setup
    \/ async_migrate
    \/ async_migrate_deploy
    \/ async_migrate_update_version
    \/ async_migrate_repair
    \/ async_setup_init

Environment ==
    \/ Upgrade
    \/ UserEditsDir
    \/ (phase = "running" /\ Quiescent /\ Restart)

Resume(s) ==
    \/ websocket_save_config_write(s)
    \/ websocket_toggle_config_enabled_write(s)
    \/ websocket_delete_config_delete(s)

\* commands one after the other: a command starts when none is in flight
Next ==
    \/ Startup
    \/ Environment
    \/ \E s \in Slots : \E id \in Ids \cup {NoId} : \E config \in Payloads :
          Quiescent /\ websocket_save_config(s, id, config)
    \/ \E s \in Slots : \E id \in Ids : \E enabled \in BOOLEAN :
          Quiescent /\ websocket_toggle_config_enabled(s, id, enabled)
    \/ \E s \in Slots : \E id \in Ids \cup {NoId} :
          Quiescent /\ websocket_delete_config(s, id)
    \/ \E id \in Ids \cup {NoId} : Quiescent /\ websocket_configs(id)
    \/ \E s \in Slots : Resume(s)

Spec == Init /\ [][Next]_vars

\* the same, with store calls that can fail
NextFault ==
    \/ Next
    \/ \E s \in Slots : StoreFault(s)

SpecFault == Init /\ [][NextFault]_vars

\* the same as Next, with a deploy_blueprints that can raise
NextDeployFault ==
    \/ Next
    \/ async_migrate_deploy_raises
    \/ (phase = "aborted" /\ Restart)

SpecDeployFault == Init /\ [][NextDeployFault]_vars

\* commands in flight together: a handler starts whenever a slot is free and
\* the handlers interleave at their store calls, as the event loop lets them.
\* The installation is left as the first startup made it (no upgrade, no
\* edit of the blueprint directory, hence no startup that takes the repair
\* branch); the registry is listed between races.
NextConcurrent ==
    \/ async_setup
    \/ async_migrate
    \/ async_migrate_deploy
    \/ async_migrate_update_version
    \/ async_setup_init
    \/ (phase = "running" /\ Quiescent /\ Restart)
    \/ \E s \in Slots : \E id \in Ids \cup {NoId} : \E config \in Payloads :
          websocket_save_config(s, id, config)
    \/ \E s \in Slots : \E id \in Ids : \E enabled \in BOOLEAN :
          websocket_toggle_config_enabled(s, id, enabled)
    \/ \E s \in Slots : \E id \in Ids \cup {NoId} :
          websocket_delete_config(s, id)
    \/ \E id \in Ids \cup {NoId} : Quiescent /\ websocket_configs(id)
    \/ \E s \in Slots : Resume(s)

SpecConcurrent == Init /\ [][NextConcurrent]_vars

\* startups that can be cut short at any point, between upgrades and edits
\* of the blueprint directory (the commands, which touch neither
\* the version nor the directory, are left out); the event loop runs
\* async_setup on as long as the process lives
NextInterrupted ==
    \/ Startup
    \/ Upgrade
    \/ UserEditsDir
    \/ Interrupt

SpecInterrupted == Init /\ [][NextInterrupted]_vars /\ WF_vars(Startup)

(* ------------------------------- claims ------------------------------- *)

\* the registry and the store hold the same ids with the same fields
RegistryAgreesWithStore ==
    /\ DOMAIN switches = DOMAIN store
    /\ \A i \in DOMAIN switches : Serialize(switches[i]) = store[i]

\* the listeners on the bus that belong to switch i
ListenersOf(i) == {e \in BagToSet(bus) : e[1] = i}

\* Bound: exactly one listener, registered under the current identifier
Bound(c) ==
    /\ c.listener = c.identifier
    /\ ListenersOf(c.id) = {<<c.id, c.identifier>>}
    /\ CopiesIn(<<c.id, c.identifier>>, bus) = 1

\* Unbound: no listener at all
Unbound(c) == c.listener = NoListener /\ ListenersOf(c.id) = {}

\* C1: whenever the component runs and no command is in flight, after any
\* sequence of completed save-config, toggle-enabled and delete-config
\* commands without store faults, the registry and the store hold the same
\* ids and, for each id, the same fields (enabled included).
C1_RegistryMatchesStore ==
    (phase = "running" /\ Quiescent) => RegistryAgreesWithStore

C1_Witness ==
    /\ phase = "running" /\ Quiescent
    /\ resp.kind = "result" /\ resp.cmd = "toggle"
    /\ deleted # {}
    /\ resp.id \in DOMAIN store
    /\ store[resp.id].enabled = resp.body
    /\ RegistryAgreesWithStore

\* C2: a toggle-enabled or delete-config command naming an id that is not in
\* the registry is answered with a structured not-found error, not with the
\* report of an unhandled fault (the command carries a config_id).
C2_MissingIdIsNotFound ==
    (resp.kind = "error" /\ resp.cmd \in {"toggle", "delete"} /\ resp.id \in Ids)
        => resp.body = "NotFound"

\* C3: when the store call of a save-config, toggle-enabled or delete-config
\* command fails, the caller gets the failure and the registry is as it was
\* before the command, so that registry and store still agree.
C3_FailedStoreCallKeepsAgreement ==
    (phase = "running" /\ Quiescent /\ resp.kind = "error"
        /\ resp.body = "StoreError")
        => RegistryAgreesWithStore

\* C4: once toggle-enabled(false) has answered, the switch is Unbound (no
\* listener of its own on the bus), whatever it was before, an enabled
\* Bound switch included; once toggle-enabled(true) has answered for a switch
\* whose blueprint is resolved, the switch is Bound.
C4_ToggleSemantics ==
    (phase = "running" /\ resp.kind = "result" /\ resp.cmd = "toggle"
        /\ resp.id \in DOMAIN switches)
        => LET c == switches[resp.id] IN
           /\ c.enabled = resp.body
           /\ ~resp.body => Unbound(c)
           /\ (resp.body /\ c.blueprint.resolved) => Bound(c)

\* a switch saved enabled with a resolved blueprint (so Bound), since disabled
\* by a toggle
C4_Witness ==
    /\ phase = "running" /\ resp.kind = "result" /\ resp.cmd = "toggle"
    /\ resp.body = FALSE
    /\ resp.id \in DOMAIN switches
    /\ switches[resp.id].name = "Kitchen"
    /\ switches[resp.id].blueprint.resolved
    /\ Unbound(switches[resp.id])

\* C5: the id a save-config create assigns is in neither the registry nor
\* the store when it is assigned, and was never assigned before.
C5_CreateAssignsFreshId ==
    [][\A s \in Slots :
         (tasks[s].pc = "idle" /\ tasks'[s].cmd = "create")
            => tasks'[s].id \notin (DOMAIN switches \cup DOMAIN store \cup issued)]_vars

C5_Witness ==
    /\ Cardinality(issued) >= 2
    /\ deleted # {}
    /\ \E s \in Slots : tasks[s].cmd = "create" /\ tasks[s].id \notin deleted

\* C6: once save-config has answered, rebuilding the registry from the store
\* as startup does (whatever blueprints are then registered) gives an entry
\* under the same id with the same name, enabled, blueprint, identifier and
\* buttons as the config in the answer.
C6_SaveSurvivesRestart ==
    (phase = "running" /\ resp.kind = "result" /\ resp.cmd = "save")
        => \A B \in SUBSET BlueprintIds :
              LET bps == [b \in B |-> Blueprint(b, "valid", FALSE)]
                  r == _init_switch_configs(store, bps, EmptyBag).sw
              IN /\ resp.id \in DOMAIN r
                 /\ r[resp.id].id = resp.body.id
                 /\ Serialize(r[resp.id]) = Serialize(resp.body)

C6_Witness ==
    /\ phase = "running" /\ resp.kind = "result" /\ resp.cmd = "save"
    /\ resp.body.name = "Hall"
    /\ resp.id \in DOMAIN store
    /\ store[resp.id].blueprint = "custom"
    /\ ~store[resp.id].enabled

\* C7: an id whose delete-config has answered is in neither the registry nor
\* the store, has no listener left on the bus, and is in no later
\* list-configs answer, asked for all or by that id.
C7_DeletedIsGone ==
    \A i \in deleted :
        /\ i \notin DOMAIN switches
        /\ i \notin DOMAIN store
        /\ ListenersOf(i) = {}
        /\ (resp.kind = "result" /\ resp.cmd = "configs")
              => \A c \in resp.body : c.id # i

C7_Witness ==
    /\ resp.kind = "result" /\ resp.cmd = "configs"
    /\ resp.id \in deleted
    /\ resp.body = {}
    /\ switches # EmptyMap

\* C8: when async_migrate finds the stored version different from the
\* manifest's, it deploys, then writes the version: when it returns the
\* stored version is the manifest's and it reports the migration.
C8_MigrateWritesVersion ==
    (phase = "init" /\ ~migPre.verEq)
        => /\ migLog = <<"deploy", "version">>
           /\ version = manifest
           /\ migRet = RetMigrated
           /\ \A b \in Bundled : dir[b] = "valid"

C8_Witness ==
    /\ phase = "init" /\ ~migPre.verEq
    /\ migPre.version = "1" /\ manifest = "2" /\ version = "2"

\* C9: when async_migrate finds the stored version equal to the manifest's
\* and the blueprint directory in place, it deploys nothing and writes no
\* version, on every such call.
C9_MigrateIdempotent ==
    (phase = "init" /\ migPre.verEq /\ migPre.dirOk)
        => /\ migLog = <<>>
           /\ version = migPre.version
           /\ migRet = RetUnchanged

C9_Witness ==
    /\ phase = "init" /\ migPre.verEq /\ migPre.dirOk
    /\ migLog = <<>> /\ version = manifest

\* C10, as claimed: with the stored version equal to the manifest's and the
\* blueprint directory absent or empty, async_migrate redeploys, leaves the
\* version alone and returns an outcome that is neither the one of a
\* migration nor the one of a no-op.
C10_RepairedIsDistinct ==
    (phase = "init" /\ migPre.verEq /\ ~migPre.dirOk)
        => /\ migLog = <<"deploy">>
           /\ version = migPre.version
           /\ migRet # RetMigrated
           /\ migRet # RetUnchanged

\* C10, amended: in that case async_migrate redeploys, leaves the version
\* alone and returns False, which tells it from a migration but not from a
\* no-op.
C10_RepairReturnsFalse ==
    (phase = "init" /\ migPre.verEq /\ ~migPre.dirOk)
        => /\ migLog = <<"deploy">>
           /\ \A b \in Bundled : dir[b] = "valid"
           /\ version = migPre.version
           /\ migRet # RetMigrated
           /\ migRet = RetUnchanged

C10_Witness ==
    /\ phase = "init" /\ migPre.verEq /\ ~migPre.dirOk
    /\ check_blueprints_folder_exists(dir)

\* C11: a failure of the deploy step during async_migrate does not abort
\* startup: the setup is never left aborted, it goes on to build the blueprint
\* registry and the switch registry and completes.
C11_DeployFailureDoesNotAbort ==
    (\E i \in DOMAIN migLog : migLog[i] = "deploy_failed")
        => phase \in {"init", "running"}

\* C12: the blueprint registry built at startup holds exactly the definitions
\* of the directory that pass the schema, each under its id, wherever the
\* invalid ones stood in the listing; nothing of an earlier load is left.
C12_BlueprintsAreTheValidOnes ==
    phase = "running"
        => /\ DOMAIN blueprints = {b \in BlueprintIds : dir[b] = "valid"}
           /\ \A b \in DOMAIN blueprints :
                 blueprints[b] = Blueprint(b, dir[b], FALSE)

\* one malformed definition beside one valid one
C12_Witness ==
    /\ phase = "running"
    /\ dir["basic"] = "valid" /\ dir["custom"] = "invalid"
    /\ DOMAIN blueprints = {"basic"}

\* C13: the step of startup that builds the registries puts every stored
\* switch in the registry under its stored id with its stored fields, its
\* blueprint resolved against the blueprint registry built in that same step
\* from the directory migration left; a switch whose blueprint id is not
\* registered is loaded all the same, keeps the raw id and has no listener.
C13_StartupLoadsEveryStoredSwitch ==
    [][(phase = "init" /\ phase' = "running")
        => /\ DOMAIN blueprints' = {b \in BlueprintIds : dir[b] = "valid"}
           /\ DOMAIN switches' = DOMAIN store
           /\ \A i \in DOMAIN store :
                 LET c == switches'[i] IN
                 /\ c.id = i
                 /\ Serialize(c) = store[i]
                 /\ c.blueprint.id = store[i].blueprint
                 /\ c.blueprint.resolved
                       = (store[i].blueprint \in DOMAIN blueprints')
                 /\ ~c.blueprint.resolved
                       => /\ c.listener = NoListener
                          /\ {e \in BagToSet(bus') : e[1] = i} = {}]_vars

\* just started (no command since): an enabled stored switch whose bundled
\* blueprint is missing from the directory is in the registry, unresolved and
\* without listener
C13_Witness ==
    /\ phase = "running" /\ Quiescent /\ resp = NoResp
    /\ \E i \in DOMAIN switches :
          /\ i \in DOMAIN store
          /\ store[i].enabled /\ store[i].blueprint = "basic"
          /\ "basic" \notin DOMAIN blueprints
          /\ ~switches[i].blueprint.resolved
          /\ Unbound(switches[i])

\* C14: a switch in the registry never has more than one listener on the
\* bus, and the one it has is registered under its current identifier: no
\* listener under an identifier it had before, no second copy, in any state
\* (so neither after an update that changes the identifier of a Bound
\* switch nor after toggle-enabled(true) on a Bound switch).
C14_OneBindingUnderCurrentIdentifier ==
    \A i \in DOMAIN switches :
        /\ ListenersOf(i) \subseteq {<<i, switches[i].identifier>>}
        /\ CopiesIn(<<i, switches[i].identifier>>, bus) <= 1
        /\ switches[i].listener # NoListener => Bound(switches[i])

\* an update in flight that changed the identifier of a Bound switch from
\* sw1 (still what the store holds) to sw2
C14_Witness ==
    \E s \in Slots :
        /\ tasks[s].cmd = "update"
        /\ tasks[s].id \in DOMAIN switches \cap DOMAIN store
        /\ store[tasks[s].id].identifier = "sw1"
        /\ store[tasks[s].id].enabled
        /\ store[tasks[s].id].blueprint \in DOMAIN blueprints
        /\ switches[tasks[s].id].identifier = "sw2"
        /\ Bound(switches[tasks[s].id])

\* C15: in every state, each listener on the bus belongs to a switch that is
\* in the registry, enabled and with a resolved blueprint; a switch that is
\* disabled or whose blueprint is unresolved has no listener, and neither has
\* an id that is not in the registry.
C15_BindingsBelongToEnabledResolved ==
    /\ \A e \in BagToSet(bus) :
          /\ e[1] \in DOMAIN switches
          /\ switches[e[1]].enabled
          /\ switches[e[1]].blueprint.resolved
    /\ \A i \in DOMAIN switches :
          (~switches[i].enabled \/ ~switches[i].blueprint.resolved)
              => Unbound(switches[i])
    /\ \A i \in Ids \ DOMAIN switches : ListenersOf(i) = {}

\* a Bound switch beside one that a command disabled, its blueprint resolved
C15_Witness ==
    \E i, j \in DOMAIN switches :
        /\ i # j
        /\ Bound(switches[i])
        /\ ~switches[j].enabled
        /\ switches[j].blueprint.resolved
        /\ switches[j].name = "Kitchen"
        /\ Unbound(switches[j])

\* C17: a delete-config request without config_id is turned down by the
\* schema, with the structured error of an invalid message: whatever answer
\* such a request gets is that error, never the report of a fault raised in
\* the handler.
C17_DeleteWithoutIdRejectedBySchema ==
    (resp.cmd = "delete" /\ resp.id = NoId /\ resp.kind # "none")
        => (resp.kind = "error" /\ resp.body = "InvalidFormat")

\* C20: a save-config that carries an id allocates no id and adds or removes
\* no key. When it starts on an id of the registry, only that entry changes;
\* when its store write completes, only that key of the store changes, to
\* the registered entry; when the id is not in the registry the request
\* fails and registry, store, bus and id counter are as before.
C20_SaveWithIdKeepsTheKeys ==
    [][/\ \A s \in Slots :
          /\ (tasks[s].pc = "idle" /\ tasks'[s].cmd = "update")
                => LET id == tasks'[s].id IN
                   /\ id \in DOMAIN switches
                   /\ nextId' = nextId /\ issued' = issued
                   /\ DOMAIN switches' = DOMAIN switches
                   /\ \A j \in DOMAIN switches \ {id} :
                         switches'[j] = switches[j]
                   /\ {e \in BagToSet(bus') : e[1] # id}
                         = {e \in BagToSet(bus) : e[1] # id}
                   /\ store' = store
          /\ (tasks[s].cmd = "update" /\ tasks'[s].pc = "idle"
                /\ phase' = "running")
                => LET id == tasks[s].id IN
                   /\ nextId' = nextId /\ issued' = issued
                   /\ switches' = switches /\ bus' = bus
                   /\ DOMAIN store' = DOMAIN store
                   /\ \A j \in DOMAIN store \ {id} : store'[j] = store[j]
                   /\ store'[id] = Serialize(switches[id])
       /\ (resp' # resp /\ resp'.kind = "error" /\ resp'.cmd = "save")
             => /\ resp'.id \notin DOMAIN switches
                /\ UNCHANGED <<switches, store, bus, nextId, issued>>]_vars

\* an update in flight on one of two registered switches, changed in the
\* registry and not yet written
C20_Witness ==
    \E s \in Slots :
        /\ tasks[s].cmd = "update"
        /\ Cardinality(DOMAIN switches) = 2
        /\ DOMAIN store = DOMAIN switches
        /\ Serialize(switches[tasks[s].id]) # store[tasks[s].id]

\* C16: with commands on the same id in flight together, interleaving at
\* their store calls only, once none is in flight any more the registry and
\* the store agree on every id (in both with the same fields, or in
\* neither), and an id whose delete-config has answered is not in the store.
C16_RacingCommandsEndInAgreement ==
    (phase = "running" /\ Quiescent)
        => \A i \in Ids :
              /\ (i \in DOMAIN switches) = (i \in DOMAIN store)
              /\ i \in DOMAIN switches \cap DOMAIN store
                    => Serialize(switches[i]) = store[i]
              /\ i \in deleted => i \notin DOMAIN store

\* C18: two creates in flight together hold different ids; and once no
\* command is in flight, every id a create handed out and no delete-config
\* removed is in the registry and in the store, under its own id and with
\* the same fields in both.
C18_ConcurrentCreatesKeepBoth ==
    /\ \A s, o \in Slots :
          (s # o /\ tasks[s].cmd = "create" /\ tasks[o].cmd = "create")
              => /\ tasks[s].id # tasks[o].id
                 /\ {tasks[s].id, tasks[o].id} \subseteq DOMAIN switches
                       \cup DOMAIN detached
    /\ (phase = "running" /\ Quiescent)
          => \A i \in issued \ deleted :
                /\ i \in DOMAIN switches /\ i \in DOMAIN store
                /\ switches[i].id = i
                /\ Serialize(switches[i]) = store[i]

\* two creates suspended at their store writes, neither written yet
C18_Witness ==
    /\ tasks["t1"].cmd = "create" /\ tasks["t2"].cmd = "create"
    /\ tasks["t1"].id \notin DOMAIN store
    /\ tasks["t2"].id \notin DOMAIN store
    /\ {tasks["t1"].id, tasks["t2"].id} \subseteq DOMAIN switches

\* C19: the stored version changes only in the step that follows a completed
\* deploy of the same async_migrate run, and only to the manifest's version;
\* between that deploy and the write it still differs from the manifest's,
\* so that after an interruption there the next async_migrate deploys again;
\* and an async_migrate that finds the versions different goes on, unless
\* the process is stopped, to a stored version equal to the manifest's.
C19_VersionFollowsDeploy ==
    /\ [][version' # version
            => /\ phase = "version"
               /\ migLog # <<>> /\ migLog[Len(migLog)] = "deploy"
               /\ \A b \in Bundled : dir[b] = "valid"
               /\ version' = manifest]_vars
    /\ [](phase = "version" => version # manifest)
    /\ [][(phase = "migrate" /\ version # manifest)
            => phase' \in {"migrate", "deploy", "down"}]_vars
    /\ ((phase = "migrate" /\ version # manifest)
            ~> (phase = "down" \/ (phase = "init" /\ version = manifest)))

\* a startup stopped between deploy and version write, then the next one,
\* which has deployed again and written the version
C19_Witness ==
    /\ phase = "init"
    /\ migLog = <<"interrupted", "deploy", "version">>
    /\ version = manifest

====
